---- MODULE Spec2Model ----
(***************************************************************************)
(* State-machine model of the hybrid answer-resolution backend: the chat  *)
(* engine (ChatService), the semantic Q&A cache (QACacheService), the     *)
(* vector store adapter (VectorService), the ingestion service and the    *)
(* document re-indexing loop (DocumentsService).                          *)
(*                                                                         *)
(* Scores, distances and thresholds are integers in hundredths            *)
(* (0.30 is 30).  Cosine similarities are kept exact as num/sqrt(den2).   *)
(* The relational store (sessions, cache rows, documents) is taken to be  *)
(* reliable unless an operator takes an explicit outcome argument; the    *)
(* embedding provider, the LLM provider and the vector backend may fail.  *)
(***************************************************************************)
EXTENDS Integers, Sequences, FiniteSets, TLC

\* ------------------------------------------------------------ bounds
MaxRequests == 1

\* ------------------------------------------------- program constants
SIMILARITY_THRESHOLD == 85
CacheTake == 100
HistoryLimit == 10
DefaultRelevanceThreshold == 50
SuggestionLimit == 3

\* ---------------------------------------------------------- universe
Users == {"u1", "u2"}
NoUser == "none"
Questions == {"q1", "q2", "q3"}
BlankMessages == {"", " "}
Answers == {"a1", "a2"}
NoText == "-"

\* The embedding provider is deterministic: a text has one vector.
\* q1 and q2 are paraphrases (cosine 0.949), q3 is close to q1 (0.894) but
\* not to q2 (0.707), "other" texts point away from all of them.
EmbedOf(text) ==
  CASE text = "q1" -> <<3, 1>>
    [] text = "q2" -> <<3, 0>>
    [] text = "q3" -> <<1, 1>>
    [] OTHER -> <<-1, 2>>

\* --------------------------------------------------- cosine similarity
Dot(a, b) ==
  LET RECURSIVE Sum(_)
      Sum(i) == IF i = 0 THEN 0 ELSE a[i] * b[i] + Sum(i - 1)
  IN Sum(Len(a))

ZeroSim == [num |-> 0, den2 |-> 1]

\* The value of a similarity record is num / sqrt(den2), den2 > 0.
cosineSimilarity(vecA, vecB) ==
  IF Len(vecA) # Len(vecB) THEN ZeroSim
  ELSE LET dotProduct == Dot(vecA, vecB)
           normA == Dot(vecA, vecA)
           normB == Dot(vecB, vecB)
       IN IF normA * normB = 0 THEN ZeroSim
          ELSE [num |-> dotProduct, den2 |-> normA * normB]

\* Sign-preserving square of a similarity, as a fraction over den2.
SignedSq(s) == IF s.num >= 0 THEN s.num * s.num ELSE -(s.num * s.num)

SimGT(x, y) == SignedSq(x) * y.den2 > SignedSq(y) * x.den2

\* x >= pct / 100
SimGEPct(x, pct) == SignedSq(x) * 10000 >= pct * pct * x.den2

\* ------------------------------------------------------------- state
VARIABLES
  sessions,         \* chat_sessions table: id -> [exists, userId, messages]
  nextSessionId,    \* next primary key the sessions table hands out
  qaCache,          \* qa_cache table, rows in insertion order
  vstore,           \* chunks held by the vector collection
  collectionReady,  \* VectorService.collection is set (initializeChroma succeeded)
  relevanceThreshold, \* ChatService.relevanceThreshold (config chat.relevanceThreshold)
  enableSuggestions,  \* ChatService.enableSuggestions (config chat.enableSuggestions)
  documents,        \* documents table: id -> [exists, userId, status]
  now,              \* wall clock, one tick per handled request
  reqCount,         \* requests handled so far
  last              \* what the last handled request did and returned

vars == <<sessions, nextSessionId, qaCache, vstore, collectionReady,
          relevanceThreshold, enableSuggestions, documents, now, reqCount, last>>

\* ------------------------------------------------------ Q&A cache
JSONStringify(embedding) == [json |-> embedding]
JSONParse(column) == column.json

RemoveAt(s, i) == SubSeq(s, 1, i - 1) \o SubSeq(s, i + 1, Len(s))

\* order: { lastUsedAt: 'DESC' }
RECURSIVE SortByLastUsedDesc(_)
SortByLastUsedDesc(rows) ==
  IF rows = <<>> THEN <<>>
  ELSE LET m == CHOOSE i \in 1..Len(rows) :
                  \A j \in 1..Len(rows) :
                    \/ rows[j].lastUsedAt < rows[i].lastUsedAt
                    \/ (rows[j].lastUsedAt = rows[i].lastUsedAt /\ i <= j)
       IN <<rows[m]>> \o SortByLastUsedDesc(RemoveAt(rows, m))

Take(s, n) == SubSeq(s, 1, IF Len(s) < n THEN Len(s) ELSE n)

OwnedBy_Any(userId, row) == TRUE
OwnedBy(userId, row) == row.userId = userId

\* qaCacheRepository.find({ where: { userId }, order: { lastUsedAt: 'DESC' }, take: 100 })
CachedItems(cache, userId) ==
  Take(SortByLastUsedDesc(SelectSeq(cache, LAMBDA row : OwnedBy(userId, row))), CacheTake)

\* The loop over cachedItems: index of the best match (0: none) and its similarity.
RECURSIVE FindBestMatch(_, _, _, _, _)
FindBestMatch(items, i, questionEmbedding, bestMatch, highestSimilarity) ==
  IF i > Len(items) THEN [bestMatch |-> bestMatch, highestSimilarity |-> highestSimilarity]
  ELSE LET similarity == cosineSimilarity(questionEmbedding, JSONParse(items[i].embedding))
       IN IF SimGT(similarity, highestSimilarity)
          THEN FindBestMatch(items, i + 1, questionEmbedding, i, similarity)
          ELSE FindBestMatch(items, i + 1, questionEmbedding, bestMatch, highestSimilarity)

CacheMiss == [found |-> FALSE, id |-> 0, answer |-> NoText, documentSources |-> <<>>,
              similarity |-> ZeroSim, usageCount |-> 0]

AboveThreshold_Never(similarity) == FALSE
AboveThreshold(similarity) == SimGEPct(similarity, SIMILARITY_THRESHOLD)

\* QACacheService.searchCache: what it returns.  embedOk is whether the provider
\* call for the question's embedding succeeded (a failure is caught: a miss).
searchCache(cache, question, userId, embedOk) ==
  IF ~embedOk THEN CacheMiss
  ELSE LET questionEmbedding == EmbedOf(question)
           cachedItems == CachedItems(cache, userId)
       IN IF Len(cachedItems) = 0 THEN CacheMiss
          ELSE LET r == FindBestMatch(cachedItems, 1, questionEmbedding, 0, ZeroSim)
               IN IF r.bestMatch # 0 /\ AboveThreshold(r.highestSimilarity)
                  THEN LET row == cachedItems[r.bestMatch]
                       IN [found |-> TRUE, id |-> row.id, answer |-> row.answer,
                           documentSources |-> row.documentSources,
                           similarity |-> r.highestSimilarity,
                           usageCount |-> row.usageCount + 1]
                  ELSE CacheMiss

\* QACacheService.updateUsageStats: usage_count + 1 in the database, lastUsedAt
\* refreshed; a failing update is caught and logged.
updateUsageStats(cache, cacheId, time, updateOk) ==
  IF ~updateOk THEN cache
  ELSE [i \in 1..Len(cache) |->
          IF cache[i].id = cacheId
          THEN [cache[i] EXCEPT !.usageCount = @ + 1, !.lastUsedAt = time]
          ELSE cache[i]]

\* The table after searchCache returned `result`.
CacheAfterSearch(cache, result, time, updateOk) ==
  IF result.found THEN updateUsageStats(cache, result.id, time, updateOk) ELSE cache

\* QACacheService.saveToCache: the table afterwards.  A failing embedding or a
\* failing save is caught: the table is left as it was and nothing is raised.
saveToCache(cache, userId, question, answer, source, documentSources, time, saveOk) ==
  IF ~saveOk THEN cache
  ELSE Append(cache, [id |-> time, userId |-> userId, question |-> question,
                      answer |-> answer, source |-> source,
                      documentSources |-> documentSources,
                      embedding |-> JSONStringify(EmbedOf(question)),
                      usageCount |-> 1, lastUsedAt |-> time])

\* ------------------------------------------------------ AI provider
NoModel == "-"
ConfigOpenAIModel == "gpt-4o-mini"
VisionFallbackModel == "gpt-4o-mini"
GeminiFamily == {"gemini-2.5-pro"}
\* What the OpenAI API serves; any other name is answered with 404.
OpenAIServed == {"gpt-4o-mini", "gpt-4o"}
RequestedModels == {NoModel, "gpt-4o", "gemini-2.5-pro", "unknown-model"}

\* A provider that replaces every name it does not serve by its default.
OpenAIModelToUse_KnownOnly(modelOverride) ==
  IF modelOverride \in OpenAIServed THEN modelOverride ELSE ConfigOpenAIModel

\* OpenAIService.chat / generateCompletion: modelOverride || this.modelName
OpenAIModelToUse(modelOverride) ==
  IF modelOverride = NoModel THEN ConfigOpenAIModel ELSE modelOverride

\* OpenAIService.analyzeImage: modelOverride || 'gpt-4o-mini'
OpenAIVisionModelToUse(modelOverride) ==
  IF modelOverride = NoModel THEN VisionFallbackModel ELSE modelOverride

\* AIService.chat / generateCompletion / analyzeImage hand modelOverride on as given.
AIServiceModel(modelOverride) == modelOverride

\* ChatService.chat: const modelToUse = model || config.get('openai.model')
ChatModelToUse(model) == IF model = NoModel THEN ConfigOpenAIModel ELSE model

\* A call of the provider's completion API with `apiModel`: it succeeds only for
\* a model the provider serves, and then only if the provider is up (providerOk).
ProviderCallOk(apiModel, providerOk) == apiModel \in OpenAIServed /\ providerOk

\* ------------------------------------------------------ embeddings in batch
GeminiBatchSize == 5
OpenAIBatchSize == 20
BatchSize(provider) == IF provider = "gemini" THEN GeminiBatchSize ELSE OpenAIBatchSize

Min(a, b) == IF a <= b THEN a ELSE b

\* A slice that leaves out a batch that is not full.
Slice_FullOnly(texts, i, batchSize) ==
  IF i + batchSize > Len(texts) THEN <<>> ELSE SubSeq(texts, i + 1, i + batchSize)

\* texts.slice(i, i + batchSize), i counted from 0
Slice(texts, i, batchSize) == SubSeq(texts, i + 1, Min(i + batchSize, Len(texts)))

\* openai.embeddings.create({ input: batch }), response.data.map(item => item.embedding)
embeddingsCreate(batch) == [k \in 1..Len(batch) |-> EmbedOf(batch[k])]

\* The place of a promise of Promise.all that has not resolved yet.
NoVector == <<>>

\* The locals of generateEmbeddings: the loop index i, the embeddings pushed so
\* far, the batch in flight, the positions of the batch that are not answered
\* yet, the results of the batch by position, and the number of batches issued.
NoEmbedJob ==
  [provider |-> "none", texts |-> <<>>, i |-> 0, embeddings |-> <<>>,
   batch |-> <<>>, pending |-> {}, batchResults |-> <<>>, issued |-> 0]

\* ------------------------------------------------------ vector store
\* A chunk: [id, documentId, uploadedDocumentId, fileName, source, userId].
\* Distances the backend reports, in hundredths. The collection is created
\* without a distance function, so the backend's default applies (squared L2),
\* which has no upper bound of 1.
Distances == {18, 70, 88, 130}

ScoreOf(distance) == 100 - distance

\* collection.query: the chunks by ascending distance (`dist` gives each chunk's
\* distance to the query), at most nResults of them.
RECURSIVE NearestFirst(_, _)
NearestFirst(chunks, dist) ==
  IF chunks = {} THEN <<>>
  ELSE LET c == CHOOSE x \in chunks :
                  \A y \in chunks : dist[x.id] < dist[y.id]
                                    \/ (dist[x.id] = dist[y.id] /\ x.id <= y.id)
       IN <<c>> \o NearestFirst(chunks \ {c}, dist)

\* VectorService.search on an initialized collection whose query succeeded.
search(store, dist, topK) ==
  LET hits == Take(NearestFirst(store, dist), topK)
  IN [i \in 1..Len(hits) |->
        [id |-> hits[i].id, fileName |-> hits[i].fileName, source |-> hits[i].source,
         userId |-> hits[i].userId, score |-> ScoreOf(dist[hits[i].id])]]

\* The errors the adapter raises: the message of its own guard, the message of
\* its length test, the TypeError of reading a property of an unset collection,
\* and whatever the backend raised.
NoError == "none"
NotInitialized == "ChromaDB is not initialized. Please start ChromaDB server."
LengthMismatch == "Number of chunks must match number of embeddings"
UnsetCollectionTypeError == "TypeError: Cannot read properties of undefined"
BackendError == "backend error"

searchOk_Always(ready, backendOk) == TRUE

\* VectorService.search raises when the collection is not set or the query fails.
searchOk(ready, backendOk) == ready /\ backendOk

\* VectorService.addDocuments: raises when the collection is not set, when the
\* lengths differ or when collection.add fails.
addDocumentsOk(ready, nChunks, nEmbeddings, backendOk) ==
  ready /\ nChunks = nEmbeddings /\ backendOk

addDocuments(store, chunks) == store \cup chunks

\* What VectorService.search raises.
searchError(ready, backendOk) ==
  IF ~ready THEN NotInitialized ELSE IF ~backendOk THEN BackendError ELSE NoError

\* What VectorService.addDocuments raises.
addDocumentsError(ready, nChunks, nEmbeddings, backendOk) ==
  IF ~ready THEN NotInitialized
  ELSE IF nChunks # nEmbeddings THEN LengthMismatch
  ELSE IF ~backendOk THEN BackendError ELSE NoError

\* VectorService.getStats: available is false when the collection is not set
\* or the count fails; nothing is raised.
getStats(store, ready, countOk) ==
  IF ready /\ countOk THEN [count |-> Cardinality(store), available |-> TRUE]
  ELSE [count |-> 0, available |-> FALSE]

\* ChatService.saveAIResponseToKnowledgeBase: the chunk it builds.
QAChunk(userId, time) ==
  [id |-> 200 + time, documentId |-> 200 + time, uploadedDocumentId |-> 0,
   fileName |-> "AI Generated Q&A", source |-> "ai_generated", userId |-> userId]

\* ------------------------------------------------------ sessions
MaxSessions == 3
SessionIds == 1..MaxSessions
NoSession == [exists |-> FALSE, userId |-> NoUser, messages |-> <<>>]

Msg(role, content) == [role |-> role, content |-> content]

ImageContent(message) ==
  CASE message = "q1" -> "[Image: f] q1"
    [] message = "q2" -> "[Image: f] q2"
    [] message = "q3" -> "[Image: f] q3"
    [] OTHER -> "[Image: f] Analyze this image"

\* A test without the trim.
IsBlank_EmptyOnly(message) == message = ""

\* !message || message.trim().length === 0
IsBlank(message) == message \in BlankMessages

\* ChatService.getSession: the row, or null (NoSession) when there is none.
getSession(table, sessionId) ==
  IF sessionId \in DOMAIN table /\ table[sessionId].exists THEN table[sessionId] ELSE NoSession

PushAndTrim_NoTrim(history, message, answer) ==
  history \o <<[role |-> "user", content |-> message],
               [role |-> "assistant", content |-> answer]>>

\* The generation path's session update: push the pair, keep the last 10.
PushAndTrim(history, message, answer) ==
  LET pushed == history \o <<Msg("user", message), Msg("assistant", answer)>>
  IN IF Len(pushed) > HistoryLimit
     THEN SubSeq(pushed, Len(pushed) - HistoryLimit + 1, Len(pushed))
     ELSE pushed

PushOnly_Drop(history, userContent, answer) == history

\* The cache-hit and image paths' session update: push the pair.
PushOnly(history, userContent, answer) ==
  history \o <<Msg("user", userContent), Msg("assistant", answer)>>

\* ------------------------------------------------------ suggestions
\* A completion is a sequence of lines, a line a sequence of tokens: " " is white
\* space, "1." and "2)" are numbering, "-", "*" and "o" (the bullet dot) are
\* bullets, "?" is a question mark and "w" any other text.
NumberTokens == {"1.", "2)"}
BulletTokens == {"-", "*", "o"}

RECURSIVE TrimLeft(_)
TrimLeft(line) ==
  IF line # <<>> /\ Head(line) = " " THEN TrimLeft(Tail(line)) ELSE line

RECURSIVE TrimRight(_)
TrimRight(line) ==
  IF line # <<>> /\ line[Len(line)] = " " THEN TrimRight(SubSeq(line, 1, Len(line) - 1))
  ELSE line

Trim(line) == TrimRight(TrimLeft(line))

IncludesQuestionMark(line) == \E i \in 1..Len(line) : line[i] = "?"

\* q.replace(/^[0-9]+[\.\)]\s*/, '')
StripNumbering(line) ==
  IF line # <<>> /\ Head(line) \in NumberTokens THEN TrimLeft(Tail(line)) ELSE line

\* q.replace(/^[-o*]\s*/, '')
StripBullet(line) ==
  IF line # <<>> /\ Head(line) \in BulletTokens THEN TrimLeft(Tail(line)) ELSE line

\* The parse of the completion in generateSuggestedQuestions.
ParseQuestions(response) ==
  LET trimmed == [i \in 1..Len(response) |-> Trim(response[i])]
      kept == SelectSeq(trimmed, LAMBDA q : Len(q) > 0 /\ IncludesQuestionMark(q))
      unnumbered == [i \in 1..Len(kept) |-> StripNumbering(kept[i])]
      unbulleted == [i \in 1..Len(unnumbered) |-> StripBullet(unnumbered[i])]
  IN Take(unbulleted, SuggestionLimit)

\* The completion the provider returns in the engine's runs: four lines, one
\* numbered, one bulleted, one with trailing white space.
SuggestionResponses ==
  { << <<"w", "?">>, <<"1.", " ", "w", "?">>, <<"-", " ", "w", "?">>, <<"w", "?", " ">> >> }

\* ChatService.generateSuggestedQuestions: the completion is asked for with
\* modelToUse, asked for once more when that fails, and [] is returned when
\* the second call fails too.  providerOk1/2: the provider is up at each call.
generateSuggestedQuestions(modelToUse, providerOk1, providerOk2, response) ==
  LET apiModel == OpenAIModelToUse(AIServiceModel(modelToUse))
      ok1 == ProviderCallOk(apiModel, providerOk1)
      ok2 == ProviderCallOk(apiModel, providerOk2)
  IN [questions |-> IF ok1 \/ ok2 THEN ParseQuestions(response) ELSE <<>>,
      calls |-> IF ok1 THEN <<[kind |-> "completion", model |-> apiModel]>>
                ELSE <<[kind |-> "completion", model |-> apiModel],
                       [kind |-> "completion", model |-> apiModel]>>,
      failed |-> ~(ok1 \/ ok2)]

\* ------------------------------------------------------ chat engine
DefaultTopK == 5

\* The document branch.  Extracted text is modelled by its length; a file
\* context is the text placed before the question: its length after the cut
\* and whether the truncation marker was appended.
MaxContentLength == 15000
DocumentLengths == {0, MaxContentLength, MaxContentLength + 1}
NoFileContext == [length |-> 0, truncated |-> FALSE]

\* content.length > maxContentLength ? content.substring(0, maxContentLength) + marker : content
TruncatedContent(contentLength) ==
  [length |-> Min(contentLength, MaxContentLength),
   truncated |-> contentLength > MaxContentLength]

\* if (processedFile.content) { fileContext = ... truncatedContent ... }
FileContextOf(file, contentLength) ==
  IF file = "document" /\ contentLength > 0 THEN TruncatedContent(contentLength)
  ELSE NoFileContext

\* const enhancedMessage = fileContext ? fileContext + ' ' + message : message
EnhancedMessage(fileContext, message) == [fileContext |-> fileContext, message |-> message]

\* this.aiService.chat(message, context, history, undefined, modelToUse)
GenerationQuestion(fileContext, message) == [fileContext |-> NoFileContext, message |-> message]

\* The steps of chat whose failure is caught and logged where it happens: the
\* cache probe (searchCache, updateUsageStats), the knowledge-base writeback,
\* the suggestion generation and the cache save.  Every other failure leaves
\* chat through its outer catch, which raises it again.
\* if (!request.file): the cache probe and the cache save are made only for
\* a request without attachment.
UsesCache_Always(file) == TRUE
UsesCache(file) == file = "none"

Caught_None(step) == FALSE
Caught(step) == step \in {"cache_lookup", "writeback", "suggestions", "cache_save"}

\* What a handled request did and returned.  status is "ok" or the failure the
\* caller gets; llmCalls lists the provider's generation calls with the model
\* name each was made with; historyToLLM is the length of the history handed
\* to the chat generation (-1: no chat generation was made).
NoReindex == [totalDocuments |-> 0, reindexed |-> 0, failed |-> 0,
              started |-> {}, deleteFailed |-> {}, ingestFailed |-> {}]

BlankLast ==
  [op |-> "none", userId |-> NoUser, sessionId |-> 0, message |-> NoText,
   model |-> NoModel, file |-> "none", status |-> "ok",
   responseSource |-> "-", answer |-> NoText, sources |-> <<>>,
   relevanceScore |-> 0, modelUsed |-> NoModel,
   suggestedQuestions |-> <<>>, suggestionsDefined |-> FALSE,
   cacheLookup |-> "none", cacheSimilarity |-> ZeroSim, cacheId |-> -1,
   embedCalls |-> 0, searchCalls |-> 0, scores |-> <<>>, llmCalls |-> <<>>,
   historyToLLM |-> -1, writeback |-> "none", cacheSave |-> "none",
   suggestions |-> "none", sessionSaved |-> FALSE, returned |-> NoSession,
   reindex |-> NoReindex, error |-> "none", attempts |-> <<>>,
   embed |-> NoEmbedJob, retrieved |-> <<>>, inflight |-> <<>>,
   completion |-> <<>>, contentLength |-> 0,
   embedInput |-> [fileContext |-> NoFileContext, message |-> NoText],
   llmQuestion |-> [fileContext |-> NoFileContext, message |-> NoText],
   stats |-> [count |-> 0, available |-> FALSE]]

EngineFrame ==
  UNCHANGED <<collectionReady, relevanceThreshold, enableSuggestions, documents>>

Done(table, nsid, cache, store, rec) ==
  /\ sessions' = table
  /\ nextSessionId' = nsid
  /\ qaCache' = cache
  /\ vstore' = store
  /\ last' = rec
  /\ now' = now + 1
  /\ reqCount' = reqCount + 1
  /\ EngineFrame

Max(a, b) == IF a >= b THEN a ELSE b

RECURSIVE MaxScore(_)
MaxScore(results) ==
  IF Len(results) = 0 THEN 0
  ELSE IF Len(results) = 1 THEN results[1].score
  ELSE Max(results[1].score, MaxScore(Tail(results)))

HasRelevantData_Strict(results, threshold) ==
  Len(results) > 0 /\ \E i \in 1..Len(results) : results[i].score > threshold

\* searchResults.length > 0 && searchResults.some(r => r.score >= relevanceThreshold)
HasRelevantData(results, threshold) ==
  Len(results) > 0 /\ \E i \in 1..Len(results) : results[i].score >= threshold

\* .filter((v, i, a) => a.indexOf(v) === i)
Unique(s) ==
  LET RECURSIVE Keep(_)
      Keep(i) == IF i = 0 THEN <<>>
                 ELSE IF \E j \in 1..(i - 1) : s[j] = s[i] THEN Keep(i - 1)
                 ELSE Append(Keep(i - 1), s[i])
  IN Keep(Len(s))

\* The sources of a generated response: one per search result.
SourcesOf(results) == [i \in 1..Len(results) |-> results[i].fileName]

\* Steps 6 to 7 of chat, after the answer was generated: session update,
\* suggestions, response, cache writeback.
ChatFinish(userId, req, sid, table, nsid, store, rec, results, answer, source, modelToUse) ==
  LET history == PushAndTrim(table[sid].messages, req.message, answer)
      table2 == [table EXCEPT ![sid].messages = history]
  IN \E p1 \in (IF enableSuggestions THEN BOOLEAN ELSE {TRUE}) :
     \E p2 \in (IF enableSuggestions /\ ~p1 THEN BOOLEAN ELSE {TRUE}) :
     \E response \in (IF enableSuggestions /\ (p1 \/ p2) /\ modelToUse \in OpenAIServed
                      THEN SuggestionResponses ELSE {<<>>}) :
     \E saveOk \in (IF UsesCache(req.file) THEN BOOLEAN ELSE {TRUE}) :
       LET sg == generateSuggestedQuestions(modelToUse, p1, p2, response)
           suggestedQuestions == IF enableSuggestions THEN sg.questions ELSE <<>>
           documentSources == Unique(SourcesOf(results))
           cache2 == IF UsesCache(req.file)
                     THEN saveToCache(qaCache, userId, req.message, answer, source,
                                      documentSources, now, saveOk)
                     ELSE qaCache
       IN IF enableSuggestions /\ sg.failed /\ ~Caught("suggestions")
          THEN Done(table2, nsid, qaCache, store,
                    [rec EXCEPT !.status = "suggestions_failed", !.sessionSaved = TRUE,
                                !.suggestions = "failed", !.llmCalls = @ \o sg.calls])
          ELSE IF UsesCache(req.file) /\ ~saveOk /\ ~Caught("cache_save")
          THEN Done(table2, nsid, qaCache, store,
                    [rec EXCEPT !.status = "cache_save_failed", !.sessionSaved = TRUE,
                                !.cacheSave = "failed"])
          ELSE
          Done(table2, nsid, cache2, store,
               [rec EXCEPT !.status = "ok", !.responseSource = source, !.answer = answer,
                           !.sources = SourcesOf(results),
                           !.relevanceScore = MaxScore(results),
                           !.modelUsed = modelToUse,
                           !.suggestedQuestions = suggestedQuestions,
                           !.suggestionsDefined = (Len(suggestedQuestions) > 0),
                           !.suggestions = IF ~enableSuggestions THEN "none"
                                           ELSE IF sg.failed THEN "failed" ELSE "ok",
                           !.llmCalls = IF enableSuggestions THEN @ \o sg.calls ELSE @,
                           !.sessionSaved = TRUE,
                           !.cacheSave = IF ~UsesCache(req.file) THEN "none"
                                         ELSE IF saveOk THEN "ok" ELSE "failed"])

\* Steps 1 to 5 of chat: query embedding, vector search, relevance gate,
\* generation, knowledge-base writeback.
ChatGenerate(userId, req, sid, table, nsid, rec0, modelToUse) ==
  \E contentLength \in (IF req.file = "document" THEN DocumentLengths ELSE {0}) :
  \E embedOk \in BOOLEAN :
    LET fileContext == FileContextOf(req.file, contentLength)
        rec == [rec0 EXCEPT !.contentLength = contentLength,
                            !.embedInput = EnhancedMessage(fileContext, req.message)]
    IN
    IF ~embedOk
    THEN Done(table, nsid, qaCache, vstore,
              [rec EXCEPT !.status = "embedding_failed", !.embedCalls = 1])
    ELSE \E backendOk \in BOOLEAN :
      IF ~searchOk(collectionReady, backendOk)
      THEN /\ (~collectionReady => backendOk)
           /\ Done(table, nsid, qaCache, vstore,
                   [rec EXCEPT !.status = "search_failed", !.embedCalls = 1,
                               !.searchCalls = 1])
      ELSE \E dist \in [{c.id : c \in vstore} -> Distances] :
        LET topK == IF req.topK = 0 THEN DefaultTopK ELSE req.topK
            searchResults == search(vstore, dist, topK)
            hasRelevantData == HasRelevantData(searchResults, relevanceThreshold)
            history == IF req.includeHistory /\ Len(table[sid].messages) > 0
                       THEN table[sid].messages ELSE <<>>
            apiModel == OpenAIModelToUse(AIServiceModel(modelToUse))
            rec2 == [rec EXCEPT !.embedCalls = 1, !.searchCalls = 1,
                                !.scores = [i \in 1..Len(searchResults) |->
                                              searchResults[i].score],
                                !.retrieved = [i \in 1..Len(searchResults) |->
                                                 [id |-> searchResults[i].id,
                                                  source |-> searchResults[i].source,
                                                  userId |-> searchResults[i].userId]],
                                !.llmCalls = <<[kind |-> "chat", model |-> apiModel]>>,
                                !.llmQuestion = GenerationQuestion(fileContext, req.message),
                                !.historyToLLM = Len(history)]
        IN \E providerOk \in BOOLEAN :
           IF ~ProviderCallOk(apiModel, providerOk)
           THEN /\ (apiModel \notin OpenAIServed => providerOk)
                /\ Done(table, nsid, qaCache, vstore, [rec2 EXCEPT !.status = "llm_failed"])
           ELSE \E answer \in Answers :
             IF hasRelevantData
             THEN ChatFinish(userId, req, sid, table, nsid, vstore, rec2, searchResults,
                             answer, "knowledge_base", modelToUse)
             ELSE \E writebackOk \in BOOLEAN :
               LET store2 == IF addDocumentsOk(collectionReady, 1, 1, writebackOk)
                             THEN addDocuments(vstore, {QAChunk(userId, now)})
                             ELSE vstore
               IN IF ~writebackOk /\ ~Caught("writeback")
                  THEN Done(table, nsid, qaCache, vstore,
                            [rec2 EXCEPT !.status = "writeback_failed",
                                         !.writeback = "failed"])
                  ELSE ChatFinish(userId, req, sid, table, nsid, store2,
                             [rec2 EXCEPT !.writeback = IF writebackOk THEN "ok" ELSE "failed"],
                             searchResults, answer, "ai_generated", modelToUse)

\* Step 1 of chat: the attached file.  "image" has imageData, "document" has
\* extracted content, "bad" is a file processFile reports an error for.
ChatFile(userId, req, sid, table, nsid, rec, modelToUse) ==
  IF req.file = "bad"
  THEN Done(table, nsid, qaCache, vstore, [rec EXCEPT !.status = "file_error"])
  ELSE IF req.file = "image"
  THEN LET apiModel == OpenAIVisionModelToUse(AIServiceModel(modelToUse))
           rec2 == [rec EXCEPT !.llmCalls = <<[kind |-> "image", model |-> apiModel]>>]
       IN \E providerOk \in BOOLEAN :
          IF ~ProviderCallOk(apiModel, providerOk)
          THEN /\ (apiModel \notin OpenAIServed => providerOk)
               /\ Done(table, nsid, qaCache, vstore, [rec2 EXCEPT !.status = "llm_failed"])
          ELSE \E imageAnalysis \in Answers :
            Done([table EXCEPT ![sid].messages =
                    PushOnly(@, ImageContent(req.message), imageAnalysis)],
                 nsid, qaCache, vstore,
                 [rec2 EXCEPT !.status = "ok", !.responseSource = "ai_generated",
                              !.answer = imageAnalysis, !.modelUsed = modelToUse,
                              !.suggestedQuestions = <<>>, !.suggestionsDefined = TRUE,
                              !.sessionSaved = TRUE])
  ELSE ChatGenerate(userId, req, sid, table, nsid, rec, modelToUse)

\* Step 0 of chat: the cache probe, skipped when a file is attached.
ChatCache(userId, req, sid, table, nsid, rec, modelToUse) ==
  IF UsesCache(req.file)
  THEN \E cacheEmbedOk \in BOOLEAN :
         LET cacheResult == searchCache(qaCache, req.message, userId, cacheEmbedOk)
         IN IF ~cacheEmbedOk /\ ~Caught("cache_lookup")
            THEN Done(table, nsid, qaCache, vstore,
                      [rec EXCEPT !.status = "cache_lookup_failed", !.cacheLookup = "failed"])
            ELSE IF cacheResult.found
            THEN \E updateOk \in BOOLEAN :
                   Done([table EXCEPT ![sid].messages =
                           PushOnly(@, req.message, cacheResult.answer)],
                        nsid,
                        CacheAfterSearch(qaCache, cacheResult, now, updateOk),
                        vstore,
                        [rec EXCEPT !.status = "ok", !.responseSource = "cached",
                                    !.answer = cacheResult.answer,
                                    !.sources = cacheResult.documentSources,
                                    !.modelUsed = "cached",
                                    !.cacheLookup = "hit",
                                    !.cacheSimilarity = cacheResult.similarity,
                                    !.cacheId = cacheResult.id,
                                    !.suggestedQuestions = <<>>,
                                    !.suggestionsDefined = TRUE,
                                    !.sessionSaved = TRUE])
            ELSE ChatFile(userId, req, sid, table, nsid,
                          [rec EXCEPT !.cacheLookup = IF cacheEmbedOk THEN "miss"
                                                      ELSE "failed"],
                          modelToUse)
  ELSE ChatFile(userId, req, sid, table, nsid, rec, modelToUse)

\* ChatService.chat(userId, request)
ChatRequest(userId, req) ==
  /\ last.op = "none"
  /\ LET modelToUse == ChatModelToUse(req.model)
         rejected == [BlankLast EXCEPT !.op = "chat", !.userId = userId,
                                       !.sessionId = req.sessionId,
                                       !.message = req.message]
         session == getSession(sessions, req.sessionId)
     IN IF IsBlank(req.message)
        THEN Done(sessions, nextSessionId, qaCache, vstore,
                  [rejected EXCEPT !.status = "empty_message"])
        ELSE IF req.sessionId # 0 /\ ~session.exists
        THEN Done(sessions, nextSessionId, qaCache, vstore,
                  [rejected EXCEPT !.status = "invalid_session"])
        ELSE IF req.sessionId # 0 /\ session.userId # userId
        THEN Done(sessions, nextSessionId, qaCache, vstore,
                  [rejected EXCEPT !.status = "not_owner"])
        ELSE /\ (req.sessionId = 0 => nextSessionId <= MaxSessions)
             /\ LET sid == IF req.sessionId = 0 THEN nextSessionId ELSE req.sessionId
                    table == IF req.sessionId = 0
                             THEN [sessions EXCEPT ![sid] =
                                     [exists |-> TRUE, userId |-> userId, messages |-> <<>>]]
                             ELSE sessions
                    nsid == IF req.sessionId = 0 THEN nextSessionId + 1 ELSE nextSessionId
                    rec == [BlankLast EXCEPT !.op = "chat", !.userId = userId,
                                             !.sessionId = sid, !.message = req.message,
                                             !.model = req.model, !.file = req.file]
                IN ChatCache(userId, req, sid, table, nsid, rec, modelToUse)

\* ChatController.askQuestion -> ChatService.chat, within the runs' request budget.
Chat(userId, req) ==
  /\ reqCount < MaxRequests
  /\ ChatRequest(userId, req)

\* ChatController.getSession -> ChatService.getSession(sessionId)
GetSession(userId, sessionId) ==
  /\ reqCount < MaxRequests
  /\ last.op = "none"
  /\ Done(sessions, nextSessionId, qaCache, vstore,
          [BlankLast EXCEPT !.op = "getSession", !.userId = userId,
                            !.sessionId = sessionId, !.status = "ok",
                            !.returned = getSession(sessions, sessionId)])

\* A test that lets any user act on any stored session.
OwnsSession_AnyExisting(session, userId) == session.exists

\* if (session && session.userId === userId)
OwnsSession(session, userId) == session.exists /\ session.userId = userId

\* ChatController.deleteSession -> ChatService.deleteSession(sessionId, userId)
DeleteSession(userId, sessionId) ==
  /\ reqCount < MaxRequests
  /\ last.op = "none"
  /\ LET session == getSession(sessions, sessionId)
     IN Done(IF OwnsSession(session, userId)
             THEN [sessions EXCEPT ![sessionId] = NoSession] ELSE sessions,
             nextSessionId, qaCache, vstore,
             [BlankLast EXCEPT !.op = "deleteSession", !.userId = userId,
                               !.sessionId = sessionId, !.status = "ok"])

\* ChatController.clearHistory -> ChatService.clearSessionHistory(sessionId, userId)
ClearSessionHistory(userId, sessionId) ==
  /\ reqCount < MaxRequests
  /\ last.op = "none"
  /\ LET session == getSession(sessions, sessionId)
     IN Done(IF OwnsSession(session, userId)
             THEN [sessions EXCEPT ![sessionId].messages = <<>>] ELSE sessions,
             nextSessionId, qaCache, vstore,
             [BlankLast EXCEPT !.op = "clearSessionHistory", !.userId = userId,
                               !.sessionId = sessionId, !.status = "ok"])

\* ChatController.createSession -> ChatService.createSession(userId)
CreateSession(userId) ==
  /\ reqCount < MaxRequests
  /\ last.op = "none"
  /\ nextSessionId <= MaxSessions
  /\ Done([sessions EXCEPT ![nextSessionId] =
             [exists |-> TRUE, userId |-> userId, messages |-> <<>>]],
          nextSessionId + 1, qaCache, vstore,
          [BlankLast EXCEPT !.op = "createSession", !.userId = userId,
                            !.sessionId = nextSessionId, !.status = "ok"])

\* ------------------------------------------------------ engine runs
\* A pair of turns as five earlier generation requests leave them.
Turn(q, a) == <<Msg("user", q), Msg("assistant", a)>>
FullHistory ==
  Turn("q1", "a1") \o Turn("q3", "a2") \o Turn("q1", "a2") \o Turn("q3", "a1")
    \o Turn("q1", "a1")

\* A cache row as an earlier request of u1 for q1 left it (time 0).
SeedRow ==
  [id |-> 0, userId |-> "u1", question |-> "q1", answer |-> "a1",
   source |-> "ai_generated", documentSources |-> <<>>,
   embedding |-> JSONStringify(EmbedOf("q1")), usageCount |-> 1, lastUsedAt |-> 0]

\* A chunk as the ingestion of an upload of u1 left it.
SeedChunk ==
  [id |-> 11, documentId |-> 101, uploadedDocumentId |-> 1, fileName |-> "doc1.pdf",
   source |-> "upload", userId |-> NoUser]

NoDocument == [exists |-> FALSE, userId |-> NoUser, status |-> "-"]

\* The deployments the runs start from: threshold and suggestion flag of the
\* configuration, and whether initializeChroma reached the collection.
Deployments ==
  {[threshold |-> t, suggestions |-> g, ready |-> TRUE] :
     t \in {30, DefaultRelevanceThreshold}, g \in BOOLEAN}
  \cup {[threshold |-> DefaultRelevanceThreshold, suggestions |-> FALSE, ready |-> FALSE]}

\* The stored data the runs start from: a fresh system, a system in use (u1's
\* session at the history limit, a cached answer, an ingested chunk), and a
\* system whose cache was filled but whose session of u1 is new.
StoredData ==
  {[history |-> <<>>, cache |-> <<>>, store |-> {}],
   [history |-> FullHistory, cache |-> <<SeedRow>>, store |-> {SeedChunk}],
   [history |-> <<>>, cache |-> <<SeedRow>>, store |-> {SeedChunk}]}

EngineInit ==
  \E dep \in Deployments, data \in StoredData :
    /\ sessions = [s \in SessionIds |->
                     IF s = 1 THEN [exists |-> TRUE, userId |-> "u1",
                                    messages |-> data.history]
                     ELSE IF s = 2 THEN [exists |-> TRUE, userId |-> "u2",
                                         messages |-> Turn("q3", "a2")]
                     ELSE NoSession]
    /\ nextSessionId = 3
    /\ qaCache = data.cache
    /\ vstore = data.store
    /\ collectionReady = dep.ready
    /\ relevanceThreshold = dep.threshold
    /\ enableSuggestions = dep.suggestions
    /\ documents = <<>>
    /\ now = 1
    /\ reqCount = 0
    /\ last = BlankLast

\* The requests of the runs.  Plain questions on every session id; questions
\* with an attachment; questions naming a model; a question without history.
PlainRequests ==
  [message : {"q1", "q3", "", " "}, sessionId : 0..MaxSessions, includeHistory : {TRUE},
   topK : {0}, model : {NoModel}, file : {"none"}]
FileRequests ==
  [message : {"q3"}, sessionId : {0, 1}, includeHistory : {TRUE},
   topK : {0}, model : {NoModel}, file : {"image", "document", "bad"}]
ModelRequests ==
  [message : {"q3"}, sessionId : {0}, includeHistory : {TRUE},
   topK : {0}, model : RequestedModels \ {NoModel}, file : {"none", "image"}]
OtherRequests ==
  [message : {"q3"}, sessionId : {1}, includeHistory : {FALSE},
   topK : {0, 1}, model : {NoModel}, file : {"none"}]
MainRequests == PlainRequests \cup FileRequests \cup ModelRequests \cup OtherRequests

\* The response has left the server; the handler's locals are gone.
Deliver ==
  /\ last.op # "none"
  /\ last' = BlankLast
  /\ UNCHANGED <<sessions, nextSessionId, qaCache, vstore, collectionReady,
                 relevanceThreshold, enableSuggestions, documents, now, reqCount>>

Init == EngineInit

Next ==
  \/ \E userId \in Users, req \in PlainRequests : Chat(userId, req)
  \/ \E req \in MainRequests \ PlainRequests : Chat("u1", req)
  \/ \E userId \in Users, sessionId \in SessionIds : GetSession(userId, sessionId)
  \/ \E userId \in Users, sessionId \in SessionIds : DeleteSession(userId, sessionId)
  \/ \E userId \in Users, sessionId \in SessionIds : ClearSessionHistory(userId, sessionId)
  \/ \E userId \in Users : CreateSession(userId)
  \/ Deliver

Spec == Init /\ [][Next]_vars

\* ------------------------------------------------------ cache runs
MaxCacheRows == 2

\* QACacheService.searchCache(question, userId), called on its own.
CacheSearch(userId, question) ==
  /\ reqCount < MaxRequests
  /\ last.op = "none"
  /\ \E embedOk \in BOOLEAN, updateOk \in BOOLEAN :
       LET result == searchCache(qaCache, question, userId, embedOk)
       IN /\ (~result.found => updateOk)
          /\ Done(sessions, nextSessionId,
                  CacheAfterSearch(qaCache, result, now, updateOk), vstore,
                  [BlankLast EXCEPT !.op = "searchCache", !.userId = userId,
                                    !.message = question,
                                    !.cacheLookup = IF ~embedOk THEN "failed"
                                                    ELSE IF result.found THEN "hit"
                                                    ELSE "miss",
                                    !.cacheSimilarity = result.similarity,
                                    !.cacheId = IF result.found THEN result.id ELSE -1,
                                    !.answer = result.answer])

\* QACacheService.saveToCache(userId, question, answer, source), called on its own.
CacheSave(userId, question, answer) ==
  /\ reqCount < MaxRequests
  /\ last.op = "none"
  /\ \E saveOk \in BOOLEAN :
       Done(sessions, nextSessionId,
            saveToCache(qaCache, userId, question, answer, "ai_generated", <<>>, now, saveOk),
            vstore,
            [BlankLast EXCEPT !.op = "saveToCache", !.userId = userId,
                              !.message = question, !.answer = answer,
                              !.cacheSave = IF saveOk THEN "ok" ELSE "failed"])

\* The tables the cache runs start from: up to MaxCacheRows rows as earlier
\* saves left them, of any owner and question, used in any order.
Perms(n) == {f \in [1..n -> 1..n] : \A i, j \in 1..n : i # j => f[i] # f[j]}

CacheTables ==
  UNION { { [i \in 1..n |->
               [id |-> i, userId |-> owner[i], question |-> quest[i],
                answer |-> IF i % 2 = 1 THEN "a1" ELSE "a2",
                source |-> "ai_generated", documentSources |-> <<>>,
                embedding |-> JSONStringify(EmbedOf(quest[i])),
                usageCount |-> 1, lastUsedAt |-> used[i]]] :
              owner \in [1..n -> Users], quest \in [1..n -> Questions],
              used \in Perms(n) } : n \in 0..MaxCacheRows }

CacheInit ==
  /\ sessions = [s \in SessionIds |-> NoSession]
  /\ nextSessionId = 1
  /\ qaCache \in CacheTables
  /\ vstore = {}
  /\ collectionReady = TRUE
  /\ relevanceThreshold = DefaultRelevanceThreshold
  /\ enableSuggestions = FALSE
  /\ documents = <<>>
  /\ now = MaxCacheRows + 1
  /\ reqCount = 0
  /\ last = BlankLast

CacheNext ==
  \/ \E userId \in Users, question \in Questions : CacheSearch(userId, question)
  \/ \E userId \in Users, question \in Questions, answer \in Answers :
       CacheSave(userId, question, answer)
  \/ Deliver

SpecCache == CacheInit /\ [][CacheNext]_vars

\* ------------------------------------------------------ documents
MaxDocs == 3
DocIds == 1..MaxDocs

\* The way of deleting a document's chunks the method has: get the ids by
\* metadata filter and delete by ids. It is the second of the three ways
\* REINDEX_FIX.md lists (delete by server-side filter is the first, a scan of
\* the whole collection filtered on the client the third).
GetThenDeleteByIds == 2

\* VectorService.deleteDocumentsByDocId: collection.get({ where: { documentId } }),
\* then collection.delete({ ids }) when the get returned ids.  Whatever fails
\* inside (the collection not being set, the get, the delete) is logged and
\* raised again.
deleteDocumentsByDocId(store, documentId, ready, getOk, deleteOk) ==
  LET ids == {c.id : c \in {x \in store : x.documentId = documentId}}
      \* the one strategy the method has: get by metadata filter, delete by ids
      tried(ok) == <<[strategy |-> GetThenDeleteByIds, ok |-> ok]>>
  IN IF ~ready
     THEN [store |-> store, raised |-> TRUE, error |-> UnsetCollectionTypeError,
           attempts |-> tried(FALSE)]
     ELSE IF ~getOk
     THEN [store |-> store, raised |-> TRUE, error |-> BackendError,
           attempts |-> tried(FALSE)]
     ELSE IF ids = {}
     THEN [store |-> store, raised |-> FALSE, error |-> NoError,
           attempts |-> tried(TRUE)]
     ELSE IF ~deleteOk
     THEN [store |-> store, raised |-> TRUE, error |-> BackendError,
           attempts |-> tried(FALSE)]
     ELSE [store |-> {c \in store : c.id \notin ids}, raised |-> FALSE,
           error |-> NoError, attempts |-> tried(TRUE)]

\* IngestionService.deleteDocument: the vector delete; a failure is logged and
\* raised again.
deleteDocument(store, documentId, ready, getOk, deleteOk) ==
  deleteDocumentsByDocId(store, documentId, ready, getOk, deleteOk)

\* IngestionService.processDocument with { uploadedDocumentId }: one chunk under
\* a fresh documentId (uuid k); every failure inside is caught and reported in
\* the returned status.
processDocument(store, uploadedDocumentId, ready, ingestOk, k) ==
  LET chunk == [id |-> 1000 + k, documentId |-> 2000 + k,
                uploadedDocumentId |-> uploadedDocumentId, fileName |-> "doc.pdf",
                source |-> "upload", userId |-> NoUser]
  IN IF ingestOk /\ addDocumentsOk(ready, 1, 1, TRUE)
     THEN [store |-> addDocuments(store, {chunk}), status |-> "success"]
     ELSE [store |-> store, status |-> "failed"]

\* The loop of reindexAllDocuments over allDocuments[i..]; env gives the
\* backend's behaviour for each document.
RECURSIVE ReindexLoop(_, _, _, _, _, _)
ReindexLoop(allDocuments, i, acc, ready, env, time) ==
  IF i > Len(allDocuments) THEN acc
  ELSE LET d == allDocuments[i]
           del == deleteDocument(acc.store, d, ready, env.getOk[d], env.deleteOk[d])
       IN IF del.raised
          THEN ReindexLoop(allDocuments, i + 1,
                           [acc EXCEPT !.table[d].status = "failed",
                                       !.failed = @ + 1,
                                       !.deleteFailed = @ \cup {d}],
                           ready, env, time)
          ELSE LET ing == processDocument(del.store, d, ready, env.ingestOk[d],
                                          10 * time + i)
               IN ReindexLoop(allDocuments, i + 1,
                              [acc EXCEPT !.table[d].status = "completed",
                                          !.store = ing.store,
                                          !.reindexed = @ + 1,
                                          !.started = @ \cup {d},
                                          !.ingestFailed =
                                             IF ing.status = "failed" THEN @ \cup {d}
                                             ELSE @],
                              ready, env, time)

\* documentRepository.find({ where: { userId } })
RECURSIVE DocumentsOf(_, _, _)
DocumentsOf(table, userId, d) ==
  IF d > MaxDocs THEN <<>>
  ELSE (IF table[d].exists /\ table[d].userId = userId THEN <<d>> ELSE <<>>)
         \o DocumentsOf(table, userId, d + 1)

DocsDone(table, store, rec) ==
  /\ documents' = table
  /\ vstore' = store
  /\ last' = rec
  /\ now' = now + 1
  /\ reqCount' = reqCount + 1
  /\ UNCHANGED <<sessions, nextSessionId, qaCache, collectionReady,
                 relevanceThreshold, enableSuggestions>>

\* DocumentsService.reindexAllDocuments(userId)
ReindexAllDocuments(userId) ==
  /\ reqCount < MaxRequests
  /\ last.op = "none"
  /\ LET allDocuments == DocumentsOf(documents, userId, 1)
         ds == {allDocuments[i] : i \in 1..Len(allDocuments)}
     \* the where clause matches no chunk of an uploaded document (the chunks
     \* carry a fresh documentId), so collection.delete is not reached
     IN \E getOk \in [ds -> BOOLEAN], ingestOk \in [ds -> BOOLEAN] :
          LET env == [getOk |-> getOk, deleteOk |-> [d \in ds |-> TRUE],
                      ingestOk |-> ingestOk]
              acc == ReindexLoop(allDocuments, 1,
                                 [table |-> documents, store |-> vstore,
                                  reindexed |-> 0, failed |-> 0,
                                  started |-> {}, deleteFailed |-> {},
                                  ingestFailed |-> {}],
                                 collectionReady, env, now)
          IN DocsDone(acc.table, acc.store,
                      [BlankLast EXCEPT !.op = "reindex", !.userId = userId,
                                        !.status = "ok",
                                        !.reindex = [totalDocuments |-> Len(allDocuments),
                                                     reindexed |-> acc.reindexed,
                                                     failed |-> acc.failed,
                                                     started |-> acc.started,
                                                     deleteFailed |-> acc.deleteFailed,
                                                     ingestFailed |-> acc.ingestFailed]])

\* VectorService.deleteDocumentsByDocId(documentId), called on its own.
VectorDelete(documentId) ==
  /\ reqCount < MaxRequests
  /\ last.op = "none"
  /\ \E getOk \in BOOLEAN, deleteOk \in BOOLEAN :
       LET r == deleteDocumentsByDocId(vstore, documentId, collectionReady, getOk, deleteOk)
       IN DocsDone(documents, r.store,
                   [BlankLast EXCEPT !.op = "deleteDocumentsByDocId",
                                     !.sessionId = documentId,
                                     !.error = r.error,
                                     !.attempts = r.attempts,
                                     !.status = IF r.raised THEN "vector_delete_failed"
                                                ELSE "ok"])

\* IngestionService.deleteDocument(documentId), called on its own.
IngestionDelete(documentId) ==
  /\ reqCount < MaxRequests
  /\ last.op = "none"
  /\ \E getOk \in BOOLEAN, deleteOk \in BOOLEAN :
       LET r == deleteDocument(vstore, documentId, collectionReady, getOk, deleteOk)
       IN DocsDone(documents, r.store,
                   [BlankLast EXCEPT !.op = "ingestionDeleteDocument",
                                     !.sessionId = documentId,
                                     !.error = r.error,
                                     !.status = IF r.raised THEN "vector_delete_failed"
                                                ELSE "ok"])

\* DocumentsService.deleteDocument(documentId, userId)
DocumentsDelete(userId, documentId) ==
  /\ reqCount < MaxRequests
  /\ last.op = "none"
  /\ LET rec == [BlankLast EXCEPT !.op = "deleteDocument", !.userId = userId,
                                  !.sessionId = documentId]
     IN IF ~(documents[documentId].exists /\ documents[documentId].userId = userId)
        THEN DocsDone(documents, vstore, [rec EXCEPT !.status = "not_found"])
        ELSE \E getOk \in BOOLEAN :
          LET r == deleteDocument(vstore, documentId, collectionReady, getOk, TRUE)
          IN IF r.raised
             THEN DocsDone(documents, vstore, [rec EXCEPT !.status = "vector_delete_failed"])
             ELSE DocsDone([documents EXCEPT ![documentId] = NoDocument], r.store,
                           [rec EXCEPT !.status = "ok"])

\* The chunk the ingestion of uploaded document d left (uuid d).
UploadedChunk(d) ==
  [id |-> 10 + d, documentId |-> 100 + d, uploadedDocumentId |-> d,
   fileName |-> "doc.pdf", source |-> "upload", userId |-> NoUser]

\* The document runs start with two documents of u1 and one of u2, each
\* ingested or not, on a collection that is set or not.
DocsInit ==
  /\ sessions = [s \in SessionIds |-> NoSession]
  /\ nextSessionId = 1
  /\ qaCache = <<>>
  /\ \E ingested \in SUBSET DocIds : vstore = {UploadedChunk(d) : d \in ingested}
  /\ collectionReady \in BOOLEAN
  /\ relevanceThreshold = DefaultRelevanceThreshold
  /\ enableSuggestions = FALSE
  /\ documents = [d \in DocIds |->
                    [exists |-> TRUE, userId |-> IF d = MaxDocs THEN "u2" ELSE "u1",
                     status |-> "completed"]]
  /\ now = 1
  /\ reqCount = 0
  /\ last = BlankLast

\* The ids the vector delete is called with: ids of uploaded documents and the
\* documentId values the chunks carry.
DeleteKeys == DocIds \cup {100 + d : d \in DocIds}

DocsNext ==
  \/ \E userId \in Users : ReindexAllDocuments(userId)
  \/ \E documentId \in DeleteKeys : VectorDelete(documentId)
  \/ \E documentId \in DeleteKeys : IngestionDelete(documentId)
  \/ \E userId \in Users, documentId \in DocIds : DocumentsDelete(userId, documentId)
  \/ Deliver

SpecDocs == DocsInit /\ [][DocsNext]_vars

\* ------------------------------------------------------ vector adapter runs
\* VectorService.addDocuments(chunks, embeddings) with one chunk, called on its own.
VectorAdd(nEmbeddings) ==
  /\ reqCount < MaxRequests
  /\ last.op = "none"
  /\ \E backendOk \in BOOLEAN :
       LET chunk == [id |-> 1000 + now, documentId |-> 2000 + now,
                     uploadedDocumentId |-> 1, fileName |-> "doc.pdf",
                     source |-> "upload", userId |-> NoUser]
           error == addDocumentsError(collectionReady, 1, nEmbeddings, backendOk)
       IN DocsDone(documents,
                   IF addDocumentsOk(collectionReady, 1, nEmbeddings, backendOk)
                   THEN addDocuments(vstore, {chunk}) ELSE vstore,
                   [BlankLast EXCEPT !.op = "addDocuments", !.error = error,
                                     !.status = IF error = NoError THEN "ok"
                                                ELSE "vector_add_failed"])

\* VectorService.search(queryEmbedding, topK), called on its own.
VectorSearch(topK) ==
  /\ reqCount < MaxRequests
  /\ last.op = "none"
  /\ \E backendOk \in BOOLEAN, dist \in [{c.id : c \in vstore} -> Distances] :
       LET error == searchError(collectionReady, backendOk)
           results == IF searchOk(collectionReady, backendOk)
                      THEN search(vstore, dist, topK) ELSE <<>>
       IN DocsDone(documents, vstore,
                   [BlankLast EXCEPT !.op = "search", !.error = error,
                                     !.searchCalls = 1,
                                     !.scores = [i \in 1..Len(results) |-> results[i].score],
                                     !.status = IF error = NoError THEN "ok"
                                                ELSE "search_failed"])

\* VectorService.getStats(), called on its own.
VectorStats ==
  /\ reqCount < MaxRequests
  /\ last.op = "none"
  /\ \E countOk \in BOOLEAN :
       DocsDone(documents, vstore,
                [BlankLast EXCEPT !.op = "getStats", !.status = "ok",
                                  !.stats = getStats(vstore, collectionReady, countOk)])

VectorNext ==
  \/ \E nEmbeddings \in {1, 2} : VectorAdd(nEmbeddings)
  \/ \E topK \in {1, DefaultTopK} : VectorSearch(topK)
  \/ \E documentId \in DeleteKeys : VectorDelete(documentId)
  \/ VectorStats
  \/ Deliver

SpecVector == DocsInit /\ [][VectorNext]_vars

\* ------------------------------------------------------ conversation runs
MaxTurns == 2

\* A user's consecutive questions: questions without attachment, on a new
\* session or on session 1.
ConversationRequests ==
  [message : {"q1", "q3"}, sessionId : {0, 1}, includeHistory : {TRUE},
   topK : {0}, model : {NoModel}, file : {"none"}]

Ask(userId, req) ==
  /\ reqCount < MaxTurns
  /\ ChatRequest(userId, req)

\* A system nobody has asked yet: empty cache, empty collection.
ConversationInit ==
  /\ sessions = [s \in SessionIds |->
                   IF s = 1 THEN [exists |-> TRUE, userId |-> "u1", messages |-> <<>>]
                   ELSE NoSession]
  /\ nextSessionId = 2
  /\ qaCache = <<>>
  /\ vstore = {}
  /\ collectionReady = TRUE
  /\ relevanceThreshold = DefaultRelevanceThreshold
  /\ enableSuggestions = FALSE
  /\ documents = <<>>
  /\ now = 1
  /\ reqCount = 0
  /\ last = BlankLast

ConversationNext ==
  \/ \E userId \in Users, req \in ConversationRequests : Ask(userId, req)
  \/ Deliver

SpecConversation == ConversationInit /\ [][ConversationNext]_vars

\* ------------------------------------------------------ embedding runs
MaxTexts == 22

\* Lists of texts in which neighbours differ: q1, q2, q3 in turn, from any start.
TextAt(k, shift) ==
  CASE (k + shift) % 3 = 0 -> "q1"
    [] (k + shift) % 3 = 1 -> "q2"
    [] OTHER -> "q3"

EmbedFrame ==
  UNCHANGED <<sessions, nextSessionId, qaCache, vstore, collectionReady,
              relevanceThreshold, enableSuggestions, documents, now, reqCount>>

\* catch (error) { ...; throw error; }: the locals are gone.
EmbedThrow ==
  /\ last' = [last EXCEPT !.status = "embedding_failed",
                          !.embed = [NoEmbedJob EXCEPT !.provider = last.embed.provider,
                                                       !.texts = last.embed.texts,
                                                       !.issued = last.embed.issued]]
  /\ EmbedFrame

\* for (let i = 0; i < texts.length; i += batchSize): the body up to the await.
EmbedIssue ==
  /\ last.op = "generateEmbeddings"
  /\ last.status = "loop"
  /\ last.embed.i < Len(last.embed.texts)
  /\ LET job == last.embed
         batch == Slice(job.texts, job.i, BatchSize(job.provider))
     IN last' = [last EXCEPT !.status = "waiting",
                             !.embed = [job EXCEPT !.batch = batch,
                                                   !.pending = 1..Len(batch),
                                                   !.batchResults = [k \in 1..Len(batch) |-> NoVector],
                                                   !.issued = @ + 1]]
  /\ EmbedFrame

\* The loop body after the await: embeddings.push(...), i += batchSize.
EmbedPush(results) ==
  /\ last' = [last EXCEPT !.status = "loop",
                          !.embed = [@ EXCEPT !.embeddings = @ \o results,
                                              !.i = @ + BatchSize(last.embed.provider),
                                              !.batch = <<>>,
                                              !.pending = {},
                                              !.batchResults = <<>>]]
  /\ EmbedFrame

\* OpenAIService.generateEmbeddings: the answer to the one request of a batch.
OpenAIResponse(ok) ==
  /\ last.op = "generateEmbeddings"
  /\ last.status = "waiting"
  /\ last.embed.provider = "openai"
  /\ IF ok THEN EmbedPush(embeddingsCreate(last.embed.batch)) ELSE EmbedThrow

\* GeminiService.generateEmbeddings: one generateEmbedding(text) of the batch
\* is answered; Promise.all keeps the results by position.
GeminiResolve(k) ==
  /\ last.op = "generateEmbeddings"
  /\ last.status = "waiting"
  /\ last.embed.provider = "gemini"
  /\ k \in last.embed.pending
  /\ last' = [last EXCEPT !.embed = [@ EXCEPT !.pending = @ \ {k},
                                              !.batchResults[k] = EmbedOf(last.embed.batch[k])]]
  /\ EmbedFrame

\* One generateEmbedding(text) of the batch fails: Promise.all rejects.
GeminiReject ==
  /\ last.op = "generateEmbeddings"
  /\ last.status = "waiting"
  /\ last.embed.provider = "gemini"
  /\ last.embed.pending # {}
  /\ EmbedThrow

\* Promise.all resolves once every promise of the batch has.
GeminiBatchDone ==
  /\ last.op = "generateEmbeddings"
  /\ last.status = "waiting"
  /\ last.embed.provider = "gemini"
  /\ last.embed.pending = {}
  /\ EmbedPush(last.embed.batchResults)

\* return embeddings
EmbedReturn ==
  /\ last.op = "generateEmbeddings"
  /\ last.status = "loop"
  /\ last.embed.i >= Len(last.embed.texts)
  /\ last' = [last EXCEPT !.status = "returned"]
  /\ EmbedFrame

\* A call of generateEmbeddings(texts) of either provider has just begun.
EmbedInit ==
  /\ sessions = [s \in SessionIds |-> NoSession]
  /\ nextSessionId = 1
  /\ qaCache = <<>>
  /\ vstore = {}
  /\ collectionReady = TRUE
  /\ relevanceThreshold = DefaultRelevanceThreshold
  /\ enableSuggestions = FALSE
  /\ documents = [d \in DocIds |-> NoDocument]
  /\ now = 1
  /\ reqCount = 0
  /\ \E provider \in {"openai", "gemini"}, n \in 0..MaxTexts, shift \in 0..2 :
       last = [BlankLast EXCEPT
                 !.op = "generateEmbeddings", !.status = "loop",
                 !.embed = [NoEmbedJob EXCEPT !.provider = provider,
                                              !.texts = [k \in 1..n |-> TextAt(k, shift)]]]

EmbedNext ==
  \/ EmbedIssue
  \/ \E ok \in BOOLEAN : OpenAIResponse(ok)
  \/ \E k \in 1..GeminiBatchSize : GeminiResolve(k)
  \/ GeminiReject
  \/ GeminiBatchDone
  \/ EmbedReturn

SpecEmbed == EmbedInit /\ [][EmbedNext]_vars

\* ------------------------------------------------------ concurrent runs
MaxConcurrent == 2

\* The question of the p-th concurrent request.
MessageOf(p) ==
  CASE p = 1 -> "q1"
    [] p = 2 -> "q3"
    [] OTHER -> "q2"

\* A request of ChatService.chat between two awaits: pc is its position,
\* history its own copy of the session's messages (getSession builds a new
\* object from the row), answer and source what it will respond.
StartedRequest(p) ==
  [pc |-> "start", message |-> MessageOf(p), history |-> <<>>, answer |-> NoText,
   source |-> "-"]

ConcurrentFrame ==
  UNCHANGED <<nextSessionId, collectionReady, relevanceThreshold, enableSuggestions,
              documents, reqCount>>

\* session = await this.getSession(sessionId), and the two checks on it.
ChatReadSession(p) ==
  /\ last.inflight[p].pc = "start"
  /\ getSession(sessions, 1).exists
  /\ getSession(sessions, 1).userId = "u1"
  /\ last' = [last EXCEPT !.inflight[p].pc = "read",
                          !.inflight[p].history = getSession(sessions, 1).messages]
  /\ UNCHANGED <<sessions, qaCache, vstore, now>>
  /\ ConcurrentFrame

\* Cache lookup and, on a miss, embedding, search, generation and writeback:
\* everything between the session read and the session update.
ChatAnswer(p) ==
  /\ last.inflight[p].pc = "read"
  /\ LET me == last.inflight[p]
         cacheResult == searchCache(qaCache, me.message, "u1", TRUE)
     IN IF cacheResult.found
        THEN /\ qaCache' = CacheAfterSearch(qaCache, cacheResult, now, TRUE)
             /\ vstore' = vstore
             /\ last' = [last EXCEPT !.inflight[p].pc = "answered",
                                     !.inflight[p].answer = cacheResult.answer,
                                     !.inflight[p].source = "cached"]
        ELSE \E dist \in [{c.id : c \in vstore} -> Distances], providerOk \in BOOLEAN :
             IF ~providerOk
             THEN /\ last' = [last EXCEPT !.inflight[p].pc = "failed"]
                  /\ UNCHANGED <<qaCache, vstore>>
             ELSE \E answer \in Answers :
               LET searchResults == search(vstore, dist, DefaultTopK)
                   hasRelevantData == HasRelevantData(searchResults, relevanceThreshold)
               IN /\ qaCache' = qaCache
                  /\ vstore' = IF hasRelevantData THEN vstore
                               ELSE addDocuments(vstore, {QAChunk("u1", now)})
                  /\ last' = [last EXCEPT !.inflight[p].pc = "answered",
                                          !.inflight[p].answer = answer,
                                          !.inflight[p].source =
                                             IF hasRelevantData THEN "knowledge_base"
                                             ELSE "ai_generated"]
  /\ now' = now + 1
  /\ UNCHANGED sessions
  /\ ConcurrentFrame

\* session.history.push(...), the trim, sessionRepository.update(session.id,
\* { messages: session.history }) and, on the generation path, the cache save.
ChatWriteSession(p) ==
  /\ last.inflight[p].pc = "answered"
  /\ LET me == last.inflight[p]
         history == IF me.source = "cached"
                    THEN PushOnly(me.history, me.message, me.answer)
                    ELSE PushAndTrim(me.history, me.message, me.answer)
     IN /\ sessions' = [sessions EXCEPT ![1].messages = history]
        /\ qaCache' = IF me.source = "cached" THEN qaCache
                      ELSE saveToCache(qaCache, "u1", me.message, me.answer, me.source,
                                       <<>>, now, TRUE)
        /\ last' = [last EXCEPT !.inflight[p].pc = "done",
                                !.inflight[p].history = history]
  /\ now' = now + 1
  /\ UNCHANGED vstore
  /\ ConcurrentFrame

\* Session 1 of u1 with no, one or five earlier exchanges, and MaxConcurrent
\* requests on it received.
ConcurrentInit ==
  /\ \E messages \in {<<>>, Turn("q2", "a2"),
                      Turn("q2", "a1") \o Turn("q2", "a2") \o Turn("q2", "a1")
                        \o Turn("q2", "a2") \o Turn("q2", "a1")} :
       sessions = [s \in SessionIds |->
                     IF s = 1 THEN [exists |-> TRUE, userId |-> "u1", messages |-> messages]
                     ELSE NoSession]
  /\ nextSessionId = 2
  /\ qaCache = <<>>
  /\ vstore = {}
  /\ collectionReady = TRUE
  /\ relevanceThreshold = DefaultRelevanceThreshold
  /\ enableSuggestions = FALSE
  /\ documents = [d \in DocIds |-> NoDocument]
  /\ now = 1
  /\ reqCount = 0
  /\ last = [BlankLast EXCEPT !.op = "chat", !.userId = "u1", !.sessionId = 1,
                              !.inflight = [p \in 1..MaxConcurrent |-> StartedRequest(p)]]

ConcurrentNext ==
  \E p \in 1..MaxConcurrent :
     \/ ChatReadSession(p)
     \/ ChatAnswer(p)
     \/ ChatWriteSession(p)

SpecConcurrent == ConcurrentInit /\ [][ConcurrentNext]_vars

\* ------------------------------------------------------ suggestion runs
MaxLineLen == 4
MaxLines == 4

\* The tokens of a completion's line: white space, a numbering, a bullet, a
\* word, a question mark.
LineTokens == {" ", "1.", "-", "w", "?"}

\* Every line of at most MaxLineLen tokens.
AllLines == UNION {[1..n -> LineTokens] : n \in 0..MaxLineLen}

\* Lines of a completion of several lines: a question, a statement, a bulleted
\* question.
SomeLines == {<<"w", "?">>, <<"w">>, <<"-", " ", "w", "?">>}

\* The completions the provider may return: any single line, and any
\* MaxLines lines of SomeLines.
Completions == {<<line>> : line \in AllLines} \cup [1..MaxLines -> SomeLines]

\* ChatService.generateSuggestedQuestions(userQuestion, answer, sources, modelToUse)
SuggestQuestions(modelToUse) ==
  /\ last.op = "none"
  /\ \E providerOk1 \in BOOLEAN :
     \E providerOk2 \in (IF providerOk1 THEN {TRUE} ELSE BOOLEAN) :
       LET sg == generateSuggestedQuestions(modelToUse, providerOk1, providerOk2,
                                            last.completion)
       IN last' = [last EXCEPT !.op = "generateSuggestedQuestions",
                               !.model = modelToUse,
                               !.status = "ok",
                               !.suggestedQuestions = sg.questions,
                               !.suggestions = IF sg.failed THEN "failed" ELSE "ok",
                               !.llmCalls = sg.calls]
  /\ UNCHANGED <<sessions, nextSessionId, qaCache, vstore, collectionReady,
                 relevanceThreshold, enableSuggestions, documents, now, reqCount>>

\* A call of generateSuggestedQuestions is about to be made; the provider
\* will answer it with last.completion.
SuggestInit ==
  /\ sessions = [s \in SessionIds |-> NoSession]
  /\ nextSessionId = 1
  /\ qaCache = <<>>
  /\ vstore = {}
  /\ collectionReady = TRUE
  /\ relevanceThreshold = DefaultRelevanceThreshold
  /\ enableSuggestions = TRUE
  /\ documents = [d \in DocIds |-> NoDocument]
  /\ now = 1
  /\ reqCount = 0
  /\ \E response \in Completions : last = [BlankLast EXCEPT !.completion = response]

SuggestNext == \E modelToUse \in {ConfigOpenAIModel, "unknown-model"} : SuggestQuestions(modelToUse)

SpecSuggest == SuggestInit /\ [][SuggestNext]_vars

\* ------------------------------------------------------ properties

C2_CacheMatch ==
  (last.op = "searchCache" /\ last.cacheLookup # "failed") =>
     LET q == EmbedOf(last.message)
         own == {i \in 1..Len(qaCache) : qaCache[i].userId = last.userId}
         sim(i) == cosineSimilarity(q, JSONParse(qaCache[i].embedding))
         atLeast85(x) == x.num > 0 /\ x.num * x.num * 10000 >= 85 * 85 * x.den2
     IN /\ (last.cacheLookup = "hit") <=> (\E i \in own : atLeast85(sim(i)))
        /\ (last.cacheLookup = "hit") =>
             \E i \in own : /\ qaCache[i].id = last.cacheId
                            /\ qaCache[i].answer = last.answer
                            /\ last.cacheSimilarity = sim(i)
                            /\ \A j \in own : ~SimGT(sim(j), sim(i))

\* C2 happens: a hit on the owner's best entry while another owner holds an
\* entry that is closer to the question, and the owner a second, farther one.
C2_Witness ==
  /\ last.op = "searchCache" /\ last.cacheLookup = "hit"
  /\ \E i, j \in 1..Len(qaCache) :
       /\ qaCache[i].id = last.cacheId
       /\ qaCache[j].userId # last.userId
       /\ SimGT(cosineSimilarity(EmbedOf(last.message), JSONParse(qaCache[j].embedding)),
                last.cacheSimilarity)

\* C3: on a cache hit the turn is appended to the session and persisted, the
\* response has source cached and the stored answer, and the request makes no
\* engine embedding, no vector search, no LLM call, no knowledge-base
\* writeback and no new cache entry.
C3_CacheHitShortCircuit ==
  [][ (last'.op = "chat" /\ last'.cacheLookup = "hit") =>
        LET sid == last'.sessionId
        IN /\ last'.status = "ok" /\ last'.responseSource = "cached"
           /\ \E i \in 1..Len(qaCache) :
                /\ qaCache[i].userId = last'.userId
                /\ qaCache[i].answer = last'.answer
                /\ AboveThreshold(cosineSimilarity(EmbedOf(last'.message),
                                                   JSONParse(qaCache[i].embedding)))
           /\ sessions'[sid].messages =
                sessions[sid].messages \o <<Msg("user", last'.message),
                                            Msg("assistant", last'.answer)>>
           /\ last'.sessionSaved
           /\ last'.embedCalls = 0 /\ last'.searchCalls = 0 /\ last'.llmCalls = <<>>
           /\ last'.writeback = "none" /\ vstore' = vstore
           /\ last'.cacheSave = "none" /\ Len(qaCache') = Len(qaCache) ]_vars

\* C3 happens: a request served from the cache on a session that had turns.
C3_Witness ==
  /\ last.op = "chat" /\ last.cacheLookup = "hit" /\ last.responseSource = "cached"
  /\ Len(sessions[last.sessionId].messages) > 2

\* C4: the persisted history of a session never holds more than 10 messages,
\* and the history handed to the LLM never holds more than 10.
C4_HistoryBounded ==
  /\ \A s \in SessionIds : Len(sessions[s].messages) <= HistoryLimit
  /\ last.historyToLLM <= HistoryLimit

\* C5: deleting a document's chunks from the vector store, directly or through
\* the ingestion service, returns successfully whatever the backend does.
C5_VectorDeleteNeverRaises ==
  (last.op \in {"deleteDocumentsByDocId", "ingestionDeleteDocument"}) =>
     last.status = "ok"

\* C6: in a re-index, a document whose old embeddings could not be deleted is
\* still re-ingested and counted as reindexed, not as failed.
C6_ReindexSurvivesDeleteFailure ==
  (last.op = "reindex") =>
     /\ last.reindex.deleteFailed \subseteq last.reindex.started
     /\ \A d \in last.reindex.deleteFailed : documents[d].status = "completed"
     /\ last.reindex.reindexed >= Cardinality(last.reindex.deleteFailed)

\* C7: a request naming a model of another provider's family has every
\* generation call made with the active provider's default model and does not
\* fail because of the model name.
C7_CrossProviderModelReplaced ==
  (last.op = "chat" /\ last.model \in GeminiFamily) =>
     /\ \A i \in 1..Len(last.llmCalls) : last.llmCalls[i].model = ConfigOpenAIModel
     /\ last.status # "llm_failed"

\* C8: a chat, clear-history or delete-session request on a session of
\* another user is answered with a permission failure.
C8_MutationByNonOwnerRejected ==
  (/\ last.op \in {"chat", "clearSessionHistory", "deleteSession"}
   /\ last.sessionId \in SessionIds
   /\ sessions[last.sessionId].exists
   /\ sessions[last.sessionId].userId # last.userId) =>
     last.status = "not_owner"

\* C9: a get-session request on a session of another user is a permission
\* error; it never returns that user's history.
C9_GetSessionOwnerOnly ==
  (last.op = "getSession" /\ last.returned.exists) =>
     /\ last.returned.userId = last.userId
     /\ last.status = "ok"

\* C10: a failure of the cache lookup, the knowledge-base writeback, the
\* suggestion generation or the cache save never aborts a request whose answer
\* generation succeeded: the answer is returned and the session is persisted.
C10_NonFatalSteps ==
  (last.op = "chat") =>
     /\ last.status \notin {"cache_lookup_failed", "writeback_failed",
                            "suggestions_failed", "cache_save_failed"}
     /\ (last.cacheLookup = "failed" /\ last.file = "none") => last.embedCalls = 1
     /\ (\/ last.writeback = "failed"
         \/ last.suggestions = "failed"
         \/ last.cacheSave = "failed"
         \/ (last.cacheLookup = "failed" /\ last.historyToLLM >= 0
             /\ last.status # "llm_failed")) =>
          /\ last.status = "ok"
          /\ last.answer \in Answers
          /\ last.sessionSaved
          /\ Len(sessions[last.sessionId].messages) >= 2

\* C10 happens: all four steps failed in one request and the answer came back.
C10_Witness ==
  /\ last.op = "chat" /\ last.status = "ok" /\ last.answer \in Answers
  /\ last.cacheLookup = "failed" /\ last.writeback = "failed"
  /\ last.suggestions = "failed" /\ last.cacheSave = "failed"

\* C11: when the engine's query embedding, the vector search (the store being
\* unavailable included) or the LLM generation fails, the request fails, and
\* it appends no turn to the session, creates no cache entry and writes no
\* chunk to the vector store.
C11_FatalStepsLeaveNoTrace ==
  [][ (last'.op = "chat") =>
        LET sid == last'.sessionId
        IN /\ (last'.status \in {"embedding_failed", "search_failed", "llm_failed"}) =>
                /\ sessions'[sid].messages = sessions[sid].messages
                /\ qaCache' = qaCache
                /\ vstore' = vstore
                /\ ~last'.sessionSaved
                /\ last'.answer = NoText
           /\ (~collectionReady /\ last'.searchCalls = 1) =>
                last'.status = "search_failed"
           /\ (\E i \in 1..Len(last'.llmCalls) :
                 last'.llmCalls[i].kind \in {"chat", "image"}
                 /\ last'.llmCalls[i].model \notin OpenAIServed) =>
                last'.status = "llm_failed" ]_vars

\* C11 happens: the search failed on a store that is not available, in a
\* request on a session that has turns.
C11_Witness ==
  /\ last.op = "chat" /\ last.status = "search_failed" /\ ~collectionReady
  /\ last.sessionId \in SessionIds
  /\ Len(sessions[last.sessionId].messages) > 0

\* C12: while the vector store is not initialized, getStats returns
\* available = false without raising, and addDocuments, search and
\* deleteDocumentsByDocId each fail with the same 'store not initialized' error.
C12_NotInitializedIsDistinct ==
  (~collectionReady) =>
     /\ (last.op = "getStats") => (last.status = "ok" /\ ~last.stats.available)
     /\ (last.op \in {"addDocuments", "search", "deleteDocumentsByDocId"}) =>
          (last.status # "ok" /\ last.error = NotInitialized)

\* C13: after a chat request without attachment by a user completed with its
\* cache save, the next request by that user with the same message and no
\* attachment is answered from the cache with the first request's answer.
\* The first request is the one that left the cache row with id now - 1; the
\* next request is one made on a new session or a session of its user, and
\* the lookup's embedding call is taken to succeed.
C13_RepeatIsCached ==
  [][ \A i \in 1..Len(qaCache) :
        (/\ qaCache[i].id = now - 1
         /\ last'.op = "chat" /\ last'.file = "none"
         /\ last'.userId = qaCache[i].userId
         /\ last'.message = qaCache[i].question
         /\ last'.status \notin {"invalid_session", "not_owner"}
         /\ last'.cacheLookup # "failed") =>
           /\ last'.status = "ok"
           /\ last'.responseSource = "cached"
           /\ last'.answer = qaCache[i].answer ]_vars

\* C13 happens: the second request of a run is served from the row the first
\* request of the run saved.
C13_Witness ==
  /\ reqCount = 2
  /\ last.op = "chat" /\ last.responseSource = "cached"
  /\ \E i \in 1..Len(qaCache) :
       /\ qaCache[i].id = now - 2 /\ qaCache[i].id = last.cacheId
       /\ qaCache[i].answer = last.answer
       /\ qaCache[i].question = last.message

\* C14: a cache entry is created with usageCount 1 and every cache hit on it
\* adds exactly 1 to its stored usageCount and refreshes its lastUsedAt.
\* After a request that was a hit, the entry it returned was used at the time
\* of that request and has been counted at least twice.
C14_HitIsCounted ==
  /\ \A i \in 1..Len(qaCache) : qaCache[i].usageCount >= 1
  /\ (last.op = "chat" /\ last.cacheLookup = "hit") =>
       \A i \in 1..Len(qaCache) :
         (qaCache[i].id = last.cacheId) =>
            /\ qaCache[i].lastUsedAt = now - 1
            /\ qaCache[i].usageCount >= 2

\* C15: in the generation path, appending a pair to a session that holds 10
\* messages leaves exactly 10: the oldest 2 are dropped, the other 8 keep
\* their order and the new pair is last.
C15_TrimAtLimit ==
  [][ (/\ last'.op = "chat" /\ last'.status = "ok"
       /\ last'.cacheLookup # "hit" /\ last'.file # "image"
       /\ Len(sessions[last'.sessionId].messages) = HistoryLimit) =>
        LET old == sessions[last'.sessionId].messages
            new == sessions'[last'.sessionId].messages
        IN /\ Len(new) = 10
           /\ \A k \in 1..8 : new[k] = old[k + 2]
           /\ new[9] = [role |-> "user", content |-> last'.message]
           /\ new[10] = [role |-> "assistant", content |-> last'.answer] ]_vars

\* C15 happens: a generated answer on the session that held 10 messages.
C15_Witness ==
  /\ last.op = "chat" /\ last.status = "ok" /\ last.sessionId = 1
  /\ last.responseSource \in {"knowledge_base", "ai_generated"} /\ last.file # "image"
  /\ Len(sessions[1].messages) = HistoryLimit
  /\ sessions[1].messages[1] = FullHistory[3]
  /\ sessions[1].messages[10].content = last.answer

\* C16: a chat request that carries a file attachment makes no cache lookup
\* and stores no cache entry, on the image and on the document branch.
C16_AttachmentSkipsCache ==
  [][ (last'.op = "chat" /\ last'.file # "none") =>
        /\ last'.cacheLookup = "none"
        /\ last'.cacheSave = "none"
        /\ last'.responseSource # "cached"
        /\ qaCache' = qaCache ]_vars

\* C16 happens: a question about a document is answered by generation although
\* the user's cache holds an entry close enough to the question.
C16_Witness ==
  /\ last.op = "chat" /\ last.file = "document" /\ last.status = "ok"
  /\ \E i \in 1..Len(qaCache) :
       /\ qaCache[i].userId = last.userId
       /\ SimGEPct(cosineSimilarity(EmbedOf(last.message), JSONParse(qaCache[i].embedding)),
                   SIMILARITY_THRESHOLD)

\* C17: deleteDocumentsByDocId tries three strategies in order and stops at
\* the first that succeeds: delete by server-side filter, then get ids by
\* filter and delete by ids, then get everything, filter on the client and
\* delete by ids; a strategy is tried only after the one before it failed.
C17_ThreeStrategiesInOrder ==
  (last.op = "deleteDocumentsByDocId") =>
     LET a == last.attempts
     IN /\ Len(a) \in 1..3
        /\ \A k \in 1..Len(a) : a[k].strategy = k
        /\ \A k \in 1..(Len(a) - 1) : ~a[k].ok
        /\ (a[Len(a)].ok \/ Len(a) = 3)

C19_NoStaleChunks ==
  /\ (last.op = "deleteDocument" /\ last.status = "ok") =>
        \A c \in vstore : c.uploadedDocumentId # last.sessionId
  /\ (last.op = "reindex" /\ collectionReady) =>
        \A d \in last.reindex.started : UploadedChunk(d) \notin vstore

\* C20: generateEmbeddings(texts) returns a list as long as texts whose i-th
\* vector is the embedding of the i-th text, also for lists longer than a
\* batch and lists that do not fill their last batch; and a batch is issued
\* only when no request of an earlier batch is still in flight.
C20_BatchesKeepOrder ==
  [][ /\ (last'.op = "generateEmbeddings" /\ last'.status = "returned") =>
           /\ Len(last'.embed.embeddings) = Len(last'.embed.texts)
           /\ \A k \in 1..Len(last'.embed.texts) :
                last'.embed.embeddings[k] = EmbedOf(last'.embed.texts[k])
      /\ (last'.embed.issued > last.embed.issued) =>
           /\ last.embed.pending = {}
           /\ Len(last.embed.embeddings)
                = last.embed.issued * BatchSize(last.embed.provider) ]_vars

C20_Witness ==
  /\ last.op = "generateEmbeddings"
  /\ last.status = "returned"
  /\ last.embed.provider = "openai"
  /\ Len(last.embed.texts) > OpenAIBatchSize
  /\ Len(last.embed.texts) % OpenAIBatchSize # 0
  /\ last.embed.issued = 2
  /\ Len(last.embed.embeddings) = Len(last.embed.texts)

\* C21: every score the system computes or reports lies in [0,1]: the score of
\* each search result (1 - distance), the relevanceScore of a chat response
\* and the cache similarity that is compared against the threshold.
C21_ScoresInUnitInterval ==
  (last.op = "chat") =>
     /\ \A i \in 1..Len(last.scores) : last.scores[i] \in 0..100
     /\ last.relevanceScore \in 0..100
     /\ last.cacheSimilarity.num >= 0
     /\ last.cacheSimilarity.num * last.cacheSimilarity.num <= last.cacheSimilarity.den2

\* C22: the chat pipeline's reads of the vector store are scoped by owner: the
\* search results a user's response is built from (context and sources) hold
\* no question/answer chunk written back by a request of another user.
C22_ReadsScopedByOwner ==
  (last.op = "chat" /\ last.status = "ok") =>
     \A i \in 1..Len(last.retrieved) :
        last.retrieved[i].source = "ai_generated" =>
           last.retrieved[i].userId = last.userId

\* C23: when concurrent chat requests on one session have all succeeded, the
\* persisted history holds the turn pair of each of them (the cap of 10
\* messages leaves room for them); no request's pair is lost to another's write.
C23_NoTurnLost ==
  (\A p \in 1..MaxConcurrent : last.inflight[p].pc = "done") =>
     \A p \in 1..MaxConcurrent :
        \E i \in 1..(Len(sessions[1].messages) - 1) :
           /\ sessions[1].messages[i] = Msg("user", last.inflight[p].message)
           /\ sessions[1].messages[i + 1] = Msg("assistant", last.inflight[p].answer)

\* C24: a chat response whose responseSource is 'ai_generated' has an empty
\* sources list; sources are listed only with an answer generated from the
\* knowledge base.
C24_FreeGenerationHasNoSources ==
  (last.op = "chat" /\ last.status = "ok" /\ last.responseSource = "ai_generated") =>
     last.sources = <<>>

\* C25: the suggestedQuestions field of a chat response is on no path an
\* empty array: it is absent or a list of 1 to 3 questions.
C25_SuggestionsNeverEmptyArray ==
  (last.op = "chat" /\ last.status = "ok" /\ last.suggestionsDefined) =>
     Len(last.suggestedQuestions) \in 1..SuggestionLimit

\* C26: a chat, clearSessionHistory or deleteSession call of one user leaves
\* every session owned by another user as it was, history included; so no
\* sequence of such calls changes or deletes another user's session.
C26_OtherUsersSessionsUntouched ==
  [][ (last'.op \in {"chat", "clearSessionHistory", "deleteSession"}) =>
         \A s \in SessionIds :
            (sessions[s].exists /\ sessions[s].userId # last'.userId) =>
               sessions'[s] = sessions[s] ]_vars

C26_Witness ==
  /\ last.op \in {"clearSessionHistory", "deleteSession"}
  /\ last.sessionId \in SessionIds
  /\ sessions[last.sessionId].exists
  /\ sessions[last.sessionId].userId # last.userId
  /\ Len(sessions[last.sessionId].messages) > 0

\* C27: generateSuggestedQuestions returns, for every completion of the LLM,
\* at most 3 strings, each with a question mark and none starting with a
\* bullet or a numbering prefix; when the LLM call fails it returns the empty
\* list and raises nothing.
C27_SuggestionsAreClean ==
  (last.op = "generateSuggestedQuestions") =>
     /\ last.status = "ok"
     /\ Len(last.suggestedQuestions) <= SuggestionLimit
     /\ \A i \in 1..Len(last.suggestedQuestions) :
          LET q == last.suggestedQuestions[i]
          IN /\ IncludesQuestionMark(q)
             /\ Head(q) \notin (NumberTokens \cup BulletTokens)
     /\ (last.suggestions = "failed" => last.suggestedQuestions = <<>>)

\* C28: on the document-attachment branch the extracted text, cut to 15,000
\* characters plus a truncation marker when longer, is put before the
\* question, and this enhanced question is what is embedded for the vector
\* search and what is passed to the LLM as the question.
C28_EnhancedQuestionEverywhere ==
  (last.op = "chat" /\ last.file = "document" /\ last.contentLength > 0
     /\ last.embedCalls = 1) =>
     /\ last.embedInput.fileContext = TruncatedContent(last.contentLength)
     /\ last.embedInput.message = last.message
     /\ (Len(last.llmCalls) > 0 => last.llmQuestion = last.embedInput)

\* C29: a chat request whose message is empty or only white space is rejected
\* before any side effect: no session is created or changed, no cache lookup
\* is made, and no embedding, vector-store or LLM call is issued.
C29_BlankMessageRejectedFirst ==
  [][ (last'.op = "chat" /\ last'.message \in BlankMessages) =>
         /\ last'.status = "empty_message"
         /\ sessions' = sessions
         /\ nextSessionId' = nextSessionId
         /\ qaCache' = qaCache
         /\ vstore' = vstore
         /\ last'.cacheLookup = "none"
         /\ last'.embedCalls = 0
         /\ last'.searchCalls = 0
         /\ last'.llmCalls = <<>> ]_vars

C29_Witness ==
  /\ last.op = "chat"
  /\ last.message = " "
  /\ last.sessionId = 0
  /\ last.status = "empty_message"

\* C30: reindexAllDocuments marks a document 'completed' and counts it in
\* 'reindexed' only if its re-ingestion succeeded; a document whose
\* re-ingestion failed ends 'failed' and is counted in 'failed'; and
\* reindexed + failed = totalDocuments.
C30_ReindexCountsIngestion ==
  (last.op = "reindex") =>
     /\ \A d \in last.reindex.ingestFailed : documents[d].status = "failed"
     /\ last.reindex.reindexed
          = Cardinality(last.reindex.started \ last.reindex.ingestFailed)
     /\ last.reindex.failed >= Cardinality(last.reindex.ingestFailed)
     /\ last.reindex.reindexed + last.reindex.failed = last.reindex.totalDocuments

====
